---- MODULE Spec2Model ----
(***************************************************************************)
(* The 23andMe to binary PLINK converter, src/convert_23andme_binary.py.   *)
(*                                                                         *)
(* Text is modelled at the character level: a string is a sequence of      *)
(* one-character strings, a text file is the sequence of its lines (each   *)
(* without its terminating newline), a binary file is a sequence of bytes. *)
(* create_binary_plink is one control flow with the positions pc runs      *)
(* through; every open, write and close is a step of its own.              *)
(***************************************************************************)
EXTENDS Integers, Sequences, FiniteSets, TLC

\* ------------------------------------------------------------------ bounds

\* Longest input file, in lines.
MaxLines == 3

\* The interpreter's string-hash seeds range over 0..MaxHashSeed.
MaxHashSeed == 1

\* Most command-line arguments given to the script.
MaxArgs == 3

\* Longest input file made of the malformed and unusual lines, in lines.
MaxParseLines == 2

\* Longest input file made of the lines of the genotype classes, in lines.
MaxGenotypeLines == 2

\* ------------------------------------------------------------ python text

TAB == "\t"
SP == " "

\* str.strip()'s whitespace, within the alphabet of the model.
IsSpace(c) == c \in {" ", "\t", "\n", "\r"}

RECURSIVE LStrip(_)
LStrip(s) ==
    IF s /= <<>> /\ IsSpace(Head(s)) THEN LStrip(Tail(s)) ELSE s

RECURSIVE RStrip(_)
RStrip(s) ==
    IF s /= <<>> /\ IsSpace(s[Len(s)]) THEN RStrip(SubSeq(s, 1, Len(s) - 1)) ELSE s

\* line.strip()
Strip(s) == RStrip(LStrip(s))

\* A mutant of StartsWithHash: no line is taken for a comment.
StartsWithHashNever(s) == FALSE

\* line.startswith('#')
StartsWithHash(s) == s /= <<>> /\ Head(s) = "#"

\* s.split(sep): the fields between the separators, empty ones kept.
RECURSIVE SplitFrom(_, _, _, _)
SplitFrom(s, sep, cur, acc) ==
    IF s = <<>> THEN Append(acc, cur)
    ELSE IF Head(s) = sep THEN SplitFrom(Tail(s), sep, <<>>, Append(acc, cur))
    ELSE SplitFrom(Tail(s), sep, Append(cur, Head(s)), acc)

Split(s, sep) == SplitFrom(s, sep, <<>>, <<>>)

DigitChars == <<"0", "1", "2", "3", "4", "5", "6", "7", "8", "9">>

IsDigit(c) == \E d \in 1..10 : DigitChars[d] = c

DigitVal(c) == (CHOOSE d \in 1..10 : DigitChars[d] = c) - 1

\* The digits-and-underscores body of an integer literal: it starts and ends
\* with a digit and no two underscores are adjacent.
DigitsOk(s) ==
    /\ s /= <<>>
    /\ \A i \in 1..Len(s) : IsDigit(s[i]) \/ s[i] = "_"
    /\ IsDigit(s[1]) /\ IsDigit(s[Len(s)])
    /\ \A i \in 1..(Len(s) - 1) : ~(s[i] = "_" /\ s[i + 1] = "_")

RECURSIVE DigitsVal(_, _)
DigitsVal(s, acc) ==
    IF s = <<>> THEN acc
    ELSE IF Head(s) = "_" THEN DigitsVal(Tail(s), acc)
    ELSE DigitsVal(Tail(s), 10 * acc + DigitVal(Head(s)))

\* int(s): surrounding whitespace is ignored, one sign is allowed; ok is FALSE
\* where int raises ValueError.
ParseInt(s) ==
    LET t == Strip(s)
        signed == t /= <<>> /\ Head(t) \in {"+", "-"}
        body == IF signed THEN Tail(t) ELSE t
        mag == DigitsVal(body, 0)
    IN  IF DigitsOk(body)
        THEN [ok |-> TRUE, val |-> IF signed /\ Head(t) = "-" THEN 0 - mag ELSE mag]
        ELSE [ok |-> FALSE, val |-> 0]

RECURSIVE NatToStr(_)
NatToStr(n) ==
    IF n < 10 THEN <<DigitChars[n + 1]>>
    ELSE Append(NatToStr(n \div 10), DigitChars[(n % 10) + 1])

\* str(n) of an integer, as an f-string formats it.
IntToStr(n) == IF n < 0 THEN <<"-">> \o NatToStr(0 - n) ELSE NatToStr(n)

\* ---------------------------------------------------------- python set order

\* ord(c) of the characters that occur as alleles.
Ord(c) ==
    CASE c = "A" -> 65 [] c = "C" -> 67 [] c = "G" -> 71 [] c = "T" -> 84
      [] c = "D" -> 68 [] c = "I" -> 73 [] c = "-" -> 45 [] c = "0" -> 48
      [] c = "a" -> 97 [] c = "c" -> 99 [] c = "g" -> 103 [] c = "t" -> 116
      [] OTHER -> 63

\* hash(c) of a one-character string in a process whose hash seed is seed.
\* String hashing is keyed by a per-process seed (PYTHONHASHSEED, random by
\* default); the keyed hash is abstracted to a seed-dependent mix of ord(c)
\* with six significant bits.
StrHash(c, seed) == (Ord(c) * (2 * seed + 3) + 5 * seed) % 64

\* The slot a key with hash h takes in an 8-slot set table whose slots in
\* taken are occupied: open addressing, i = (5*i + 1 + perturb) mod 8 with
\* perturb shifted right by 5 bits before each use.
RECURSIVE ProbeSlot(_, _, _)
ProbeSlot(i, perturb, taken) ==
    IF i \notin taken THEN i
    ELSE ProbeSlot((5 * i + 1 + (perturb \div 32)) % 8, perturb \div 32, taken)

\* list(set([a1, a2])): the distinct elements in table-slot order.
UniqueAlleles(a1, a2, seed) ==
    IF a1 = a2 THEN <<a1>>
    ELSE LET s1 == ProbeSlot(StrHash(a1, seed) % 8, StrHash(a1, seed), {})
             s2 == ProbeSlot(StrHash(a2, seed) % 8, StrHash(a2, seed), {s1})
         IN  IF s1 < s2 THEN <<a1, a2>> ELSE <<a2, a1>>

\* ------------------------------------------------------- record normalizer

\* A mutant of ExcludedChrom: the unplaced label 0 is not excluded.
ExcludedChromNoZero(chrom) == chrom \in {<<"M", "T">>, <<"Y">>}

\* chrom in ['0', 'MT', 'Y']
ExcludedChrom(chrom) == chrom \in {<<"0">>, <<"M", "T">>, <<"Y">>}

\* chrom_num: 23 for X, int(chrom) otherwise; ok is FALSE on ValueError.
ChromNum(chrom) ==
    IF chrom = <<"X">> THEN [ok |-> TRUE, val |-> 23] ELSE ParseInt(chrom)

\* A mutant of Alleles: a genotype of more than two characters is cut to two.
AllelesAtLeastTwo(genotype) ==
    IF genotype = <<"-", "-">> THEN [ok |-> TRUE, a1 |-> "0", a2 |-> "0"]
    ELSE IF Len(genotype) >= 2
         THEN [ok |-> TRUE, a1 |-> genotype[1], a2 |-> genotype[2]]
         ELSE [ok |-> FALSE, a1 |-> "0", a2 |-> "0"]

\* allele1, allele2 of a genotype field; ok is FALSE where the line is skipped.
Alleles(genotype) ==
    IF genotype = <<"-", "-">> THEN [ok |-> TRUE, a1 |-> "0", a2 |-> "0"]
    ELSE IF Len(genotype) = 2
         THEN [ok |-> TRUE, a1 |-> genotype[1], a2 |-> genotype[2]]
         ELSE [ok |-> FALSE, a1 |-> "0", a2 |-> "0"]

NoSnp == [rsid |-> <<>>, chrom |-> 0, pos |-> 0, allele1 |-> "0", allele2 |-> "0"]

Skip == [keep |-> FALSE, snp |-> NoSnp]

\* One pass of the reading loop's body over one line of the file: keep says
\* whether the line reaches snps.append, snp is the record appended.
ParseLine(rawline) ==
    LET line == Strip(rawline)
        parts == Split(line, TAB)
    IN  IF StartsWithHash(line) \/ line = <<>> THEN Skip
        ELSE IF Len(parts) < 4 THEN Skip
        ELSE LET rsid == parts[1]
                 chrom == parts[2]
                 pos == parts[3]
                 genotype == parts[4]
                 chrom_num == ChromNum(chrom)
                 pos_int == ParseInt(pos)
                 al == Alleles(genotype)
             IN  IF ExcludedChrom(chrom) THEN Skip
                 ELSE IF ~chrom_num.ok THEN Skip
                 ELSE IF ~pos_int.ok THEN Skip
                 ELSE IF ~al.ok THEN Skip
                 ELSE [keep |-> TRUE,
                       snp |-> [rsid |-> rsid, chrom |-> chrom_num.val,
                                pos |-> pos_int.val,
                                allele1 |-> al.a1, allele2 |-> al.a2]]

\* A mutant of StoreSnp: the record goes to the front of the list.
StoreSnpFront(snps_, snp) == <<snp>> \o snps_

\* snps.append(...)
StoreSnp(snps_, snp) == Append(snps_, snp)

\* A mutant of AfterLine: a skipped line leaves a sentinel record in the list.
AfterLineSentinel(snps_, r) == StoreSnp(snps_, r.snp)

\* snps after the loop body has run on a line parsed to r: continue leaves
\* the list as it is.
AfterLine(snps_, r) == IF r.keep THEN StoreSnp(snps_, r.snp) ELSE snps_

\* ---------------------------------------------------------- allele resolver

\* A mutant of HomMinor: the artificial allele repeats the observed one.
HomMinorSame(a1) == a1

\* A mutant of HomMinor: the artificial allele is A for every call.
HomMinorAlwaysA(a1) == "A"

\* The artificial second allele of a homozygous call.
HomMinor(a1) == IF a1 /= "A" THEN "A" ELSE "T"

\* A mutant of ResolveAlleles: a homozygous call gets the placeholder pair.
ResolveAllelesHomPlaceholder(allele1, allele2, seed) ==
    LET unique_alleles == UniqueAlleles(allele1, allele2, seed)
    IN  IF Len(unique_alleles) = 1 \/ "0" \in {allele1, allele2}
        THEN <<"A", "T">>
        ELSE <<unique_alleles[1], unique_alleles[2]>>

\* (a1, a2) of a .bim row, in a process with hash seed seed.
ResolveAlleles(allele1, allele2, seed) ==
    LET unique_alleles == UniqueAlleles(allele1, allele2, seed)
    IN  IF \E i \in 1..Len(unique_alleles) : unique_alleles[i] = "0"
        THEN <<"A", "T">>
        ELSE IF Len(unique_alleles) = 1
             THEN <<unique_alleles[1], HomMinor(unique_alleles[1])>>
             ELSE <<unique_alleles[1], unique_alleles[2]>>

\* ----------------------------------------------------------- fileset emitter

\* A mutant of FamLine: the phenotype column is left out.
FamLineNoPhenotype ==
    <<"Z", "e", "h", "r", "a", "_", "R", "a", "z", "a", " ",
      "Z", "e", "h", "r", "a", "_", "R", "a", "z", "a", " ",
      "0", " ", "0", " ", "2">>

\* The line written to the .fam file.
FamLine ==
    <<"Z", "e", "h", "r", "a", "_", "R", "a", "z", "a", " ",
      "Z", "e", "h", "r", "a", "_", "R", "a", "z", "a", " ",
      "0", " ", "0", " ", "2", " ", "-", "9">>

\* The line written to the .bim file for one record.
BimRow(snp, seed) ==
    LET a == ResolveAlleles(snp.allele1, snp.allele2, seed)
    IN  IntToStr(snp.chrom) \o <<SP>> \o snp.rsid \o <<SP, "0", SP>>
          \o IntToStr(snp.pos) \o <<SP, a[1], SP, a[2]>>

\* A mutant of MagicHeader: the mode byte says sample-major.
MagicHeaderSampleMajor == <<108, 27, 0>>

\* The magic number of the .bed file.
MagicHeader == <<108, 27, 1>>

\* A mutant of GenotypeBits: a homozygous call of an allele other than A
\* takes the homozygous-minor code.
GenotypeBitsHomMinor(snp) ==
    IF snp.allele1 = "0" \/ snp.allele2 = "0" THEN 1
    ELSE IF snp.allele1 = snp.allele2 THEN (IF snp.allele1 = "A" THEN 0 ELSE 3)
    ELSE 2

\* A mutant of GenotypeBits: missing only when both alleles are the sentinel.
GenotypeBitsBothMissing(snp) ==
    IF snp.allele1 = "0" /\ snp.allele2 = "0" THEN 1
    ELSE IF snp.allele1 = snp.allele2 THEN 0
    ELSE 2

\* genotype_bits of one record.
GenotypeBits(snp) ==
    IF snp.allele1 = "0" \/ snp.allele2 = "0" THEN 1
    ELSE IF snp.allele1 = snp.allele2 THEN 0
    ELSE 2

\* A mutant of PackByte: the highest slot is left zero.
PackByteTopSlotZero(genotype_bits) == genotype_bits + 1 * 4 + 1 * 16

\* A mutant of PackByte: the unused slots are zero-padded.
PackByteZeroPad(genotype_bits) == genotype_bits

\* byte_value: the sample's two bits, the other three slots set to 01.
PackByte(genotype_bits) == genotype_bits + 1 * 4 + 1 * 16 + 1 * 64

\* A mutant of BedRecord: no byte is written for a missing genotype.
BedRecordSkipMissing(snp) ==
    IF GenotypeBits(snp) = 1 THEN <<>> ELSE <<PackByte(GenotypeBits(snp))>>

\* The bytes written to the .bed file for one record.
BedRecord(snp) == <<PackByte(GenotypeBits(snp))>>

\* ------------------------------------------------------------------ inputs

\* rsid<TAB>chromosome<TAB>position<TAB>genotype
DataLine(rsid, chrom, pos, genotype) ==
    rsid \o <<TAB>> \o chrom \o <<TAB>> \o pos \o <<TAB>> \o genotype

CommentLine == <<"#", " ", "c", "o", "m", "m", "e", "n", "t">>
LineRs1 == DataLine(<<"r", "s", "1">>, <<"1">>, <<"1", "0", "0">>, <<"A", "A">>)
LineRs2 == DataLine(<<"r", "s", "2">>, <<"2">>, <<"2", "0", "0">>, <<"A", "G">>)
LineRs3 == DataLine(<<"r", "s", "3">>, <<"M", "T">>, <<"3", "0", "0">>, <<"C", "C">>)
LineRs4 == DataLine(<<"r", "s", "4">>, <<"X">>, <<"4", "0", "0">>, <<"-", "-">>)
LineRs5 == DataLine(<<"r", "s", "5">>, <<"Y">>, <<"5", "0", "0">>, <<"G", "G">>)
LineRs6 == DataLine(<<"r", "s", "6">>, <<"0">>, <<"6", "0", "0">>, <<"T", "T">>)
LineRs7 == DataLine(<<"r", "s", "7">>, <<"3">>, <<"7", "0", "0">>, <<"C", "C">>)
LineRs8 == DataLine(<<"r", "s", "8">>, <<"4">>, <<"8", "0", "0">>, <<"A", "0">>)
LineRs9 == DataLine(<<"r", "s", "9">>, <<"2", "2">>, <<"9", "0", "0">>, <<"G", "A">>)

\* The lines input files are made of.
Lines ==
    {CommentLine, LineRs1, LineRs2, LineRs3, LineRs4, LineRs5, LineRs6, LineRs7,
     LineRs8, LineRs9}

\* The input files: every sequence of at most MaxLines of these lines.
InputFiles == UNION {[1..n -> Lines] : n \in 0..MaxLines}

\* The input of the end-to-end scenario.
ScenarioFile == <<CommentLine, LineRs1, LineRs2, LineRs3, LineRs4>>

\* Lines that are malformed, or well-formed in an unusual way.
LineSpaceRsid == DataLine(<<"r", " ", "1">>, <<"1">>, <<"5">>, <<"A", "A">>)
LineChr30 == DataLine(<<"c", "3", "0">>, <<"3", "0">>, <<"5">>, <<"A", "A">>)
LineChr00 == DataLine(<<"c", "0", "0">>, <<"0", "0">>, <<"5">>, <<"G", "G">>)
LineChrBad == DataLine(<<"c", "b">>, <<"X", "Y">>, <<"5">>, <<"A", "A">>)
LinePosNeg == DataLine(<<"p", "n">>, <<"1">>, <<"-", "5">>, <<"A", "A">>)
LinePosBad == DataLine(<<"p", "b">>, <<"1">>, <<"1", "x">>, <<"A", "A">>)
LineLower == DataLine(<<"l", "c">>, <<"1">>, <<"5">>, <<"a", "g">>)
LineIndel == DataLine(<<"i", "d">>, <<"1">>, <<"5">>, <<"D", "I">>)
LineOneChar == DataLine(<<"g", "1">>, <<"X">>, <<"5">>, <<"A">>)
LineThreeChar == DataLine(<<"g", "3">>, <<"1">>, <<"5">>, <<"A", "A", "G">>)
LineLeadTab == <<TAB>> \o DataLine(<<"l", "t">>, <<"1">>, <<"7">>, <<"C", "T">>)
LineShort == <<"s", "h", TAB, "1", TAB, "5">>
LineExtra == DataLine(<<"e", "x">>, <<"2">>, <<"5">>, <<"T", "T">>) \o <<TAB, "z">>
LineHashData == <<"#">> \o DataLine(<<"h">>, <<"1">>, <<"5">>, <<"A", "A">>)
LineBlank == <<>>

ParseLines ==
    {LineSpaceRsid, LineChr30, LineChr00, LineChrBad, LinePosNeg, LinePosBad,
     LineLower, LineIndel, LineOneChar, LineThreeChar, LineLeadTab, LineShort,
     LineExtra, LineHashData, LineBlank, LineRs1}

\* The input files made of at most MaxParseLines of these lines.
ParseFiles == UNION {[1..n -> ParseLines] : n \in 0..MaxParseLines}

\* The input files main is run on.
MainFiles == {<<>>, <<LineRs1, LineRs4>>, ScenarioFile}

\* Lines of every genotype class: homozygous, heterozygous in both orders,
\* the missing marker, and two-character genotypes that hold the character
\* 0, a dash or a space.
LineHomA == DataLine(<<"g", "1">>, <<"1">>, <<"1">>, <<"A", "A">>)
LineHomT == DataLine(<<"g", "2">>, <<"1">>, <<"2">>, <<"T", "T">>)
LineHetAG == DataLine(<<"g", "3">>, <<"1">>, <<"3">>, <<"A", "G">>)
LineHetGA == DataLine(<<"g", "4">>, <<"1">>, <<"4">>, <<"G", "A">>)
LineHetCT == DataLine(<<"g", "5">>, <<"2">>, <<"5">>, <<"C", "T">>)
LineMissing == DataLine(<<"g", "6">>, <<"X">>, <<"6">>, <<"-", "-">>)
LineZeroZero == DataLine(<<"g", "7">>, <<"1">>, <<"7">>, <<"0", "0">>)
LineAlleleZero == DataLine(<<"g", "8">>, <<"1">>, <<"8">>, <<"A", "0">>)
LineZeroAllele == DataLine(<<"g", "9">>, <<"1">>, <<"9">>, <<"0", "G">>)
LineDashAllele == DataLine(<<"g", "a">>, <<"1">>, <<"1", "0">>, <<"-", "A">>)
LineSpaceAllele ==
    DataLine(<<"g", "s">>, <<"1">>, <<"1", "1">>, <<"A", " ">>) \o <<TAB, "z">>

GenotypeLines ==
    {LineHomA, LineHomT, LineHetAG, LineHetGA, LineHetCT, LineMissing,
     LineZeroZero, LineAlleleZero, LineZeroAllele, LineDashAllele,
     LineSpaceAllele, CommentLine}

\* The input files made of at most MaxGenotypeLines of these lines.
GenotypeFiles == UNION {[1..n -> GenotypeLines] : n \in 0..MaxGenotypeLines}

HashSeeds == 0..MaxHashSeed

\* A file of the file system: whether it exists, and what it holds.
Absent == [exists |-> FALSE, data |-> <<>>]
FileOf(d) == [exists |-> TRUE, data |-> d]

\* What <prefix>.fam, .bim and .bed may hold before the conversion starts:
\* nothing, or the fileset a conversion of another input left there.
OldBimRow == <<"7", " ", "o", "l", "d", " ", "0", " ", "1", " ", "C", " ", "A">>
NoFileset == [fam |-> Absent, bim |-> Absent, bed |-> Absent]
OldFileset ==
    [fam |-> FileOf(<<FamLine>>),
     bim |-> FileOf(<<OldBimRow, OldBimRow, OldBimRow>>),
     bed |-> FileOf(MagicHeader \o <<84, 84, 84>>)]

\* ------------------------------------------------------------------- state

VARIABLES
    input,      \* the lines of the input file
    hashSeed,   \* the string-hash seed of the running process
    pc,         \* the position in create_binary_plink
    lineNo,     \* lines of the input consumed by the reading loop
    snps,       \* the list snps
    k,          \* records consumed by the running for-loop over snps
    fam,        \* <prefix>.fam
    bim,        \* <prefix>.bim
    bed,        \* <prefix>.bed
    second,     \* whether this is the second conversion of the input
    prev,       \* the fileset the first conversion left, in the second
    argc,       \* len(sys.argv) - 1: the arguments after the script's name
    inputExists,\* os.path.exists(input_file)
    called,     \* whether create_binary_plink has been called
    status,     \* the exit status of the process, once pc = "exited"
    snp_count   \* what create_binary_plink returned to main, -1 before

\* The state of main around the call of create_binary_plink.
mainVars == <<argc, inputExists, called, status>>

vars ==
    <<input, hashSeed, pc, lineNo, snps, k, fam, bim, bed, second, prev,
      argc, inputExists, called, status, snp_count>>

\* A mutant of NextBlock: the .bed block runs before the .bim block.
NextBlockBedFirst(p) ==
    CASE p = "call" -> "read"
      [] p = "read" -> "open_fam"
      [] p = "write_fam" -> "open_bed"
      [] p = "write_bed" -> "open_bim"
      [] p = "write_bim" -> "done"

\* A mutant of NextBlock: the .fam block runs before the input is read.
NextBlockFamFirst(p) ==
    CASE p = "call" -> "open_fam"
      [] p = "write_fam" -> "read"
      [] p = "read" -> "open_bim"
      [] p = "write_bim" -> "open_bed"
      [] p = "write_bed" -> "done"

\* The order of the blocks of create_binary_plink: where control goes from
\* the call and from the end of each with-block.
NextBlock(p) ==
    CASE p = "call" -> "read"
      [] p = "read" -> "open_fam"
      [] p = "write_fam" -> "open_bim"
      [] p = "write_bim" -> "open_bed"
      [] p = "write_bed" -> "done"

\* A mutant of OpenTruncate: the file is opened for appending.
OpenAppend(file) == IF file.exists THEN file ELSE FileOf(<<>>)

\* open(path, 'w') and open(path, 'wb'): the file is created, or cut to
\* nothing if it is there.
OpenTruncate(file) == FileOf(<<>>)

\* A mutant of ReturnValue: the length of the list genotypes, never filled.
ReturnValueGenotypes(snps_) == 0

\* return len(snps)
ReturnValue(snps_) == Len(snps_)

InitOn(files) ==
    /\ input \in files
    /\ hashSeed \in HashSeeds
    /\ pc = NextBlock("call")
    /\ lineNo = 0
    /\ snps = <<>>
    /\ k = 0
    /\ \E old \in {NoFileset, OldFileset} :
          fam = old.fam /\ bim = old.bim /\ bed = old.bed
    /\ second = FALSE
    /\ prev = NoFileset
    /\ argc = 2
    /\ inputExists = TRUE
    /\ called = TRUE
    /\ status = 0
    /\ snp_count = -1

\* create_binary_plink, called on an input file that can be read.
Init == InitOn(InputFiles)

\* ------------------------------------------------------------ reading loop

\* One iteration of the loop over the lines of the input file.
ReadLine ==
    /\ pc = "read"
    /\ lineNo < Len(input)
    /\ snps' = AfterLine(snps, ParseLine(input[lineNo + 1]))
    /\ lineNo' = lineNo + 1
    /\ UNCHANGED mainVars
    /\ UNCHANGED snp_count
    /\ UNCHANGED <<input, hashSeed, pc, k, fam, bim, bed, second, prev>>

\* The end of the input: the file is closed.
EndRead ==
    /\ pc = "read"
    /\ lineNo = Len(input)
    /\ pc' = NextBlock("read")
    /\ UNCHANGED mainVars
    /\ UNCHANGED snp_count
    /\ UNCHANGED <<input, hashSeed, lineNo, snps, k, fam, bim, bed, second, prev>>

\* ---------------------------------------------------------------- .fam file

\* open(fam_file, 'w') creates or truncates the file.
OpenFam ==
    /\ pc = "open_fam"
    /\ fam' = OpenTruncate(fam)
    /\ pc' = "write_fam"
    /\ UNCHANGED mainVars
    /\ UNCHANGED snp_count
    /\ UNCHANGED <<input, hashSeed, lineNo, snps, k, bim, bed, second, prev>>

\* The one write to the .fam file and the end of its with-block.
WriteFam ==
    /\ pc = "write_fam"
    /\ fam' = FileOf(Append(fam.data, FamLine))
    /\ pc' = NextBlock("write_fam")
    /\ UNCHANGED mainVars
    /\ UNCHANGED snp_count
    /\ UNCHANGED <<input, hashSeed, lineNo, snps, k, bim, bed, second, prev>>

\* ---------------------------------------------------------------- .bim file

OpenBim ==
    /\ pc = "open_bim"
    /\ bim' = OpenTruncate(bim)
    /\ k' = 0
    /\ pc' = "write_bim"
    /\ UNCHANGED mainVars
    /\ UNCHANGED snp_count
    /\ UNCHANGED <<input, hashSeed, lineNo, snps, fam, bed, second, prev>>

\* One iteration of the loop over snps that writes the .bim rows.
WriteBimRow ==
    /\ pc = "write_bim"
    /\ k < Len(snps)
    /\ bim' = FileOf(Append(bim.data, BimRow(snps[k + 1], hashSeed)))
    /\ k' = k + 1
    /\ UNCHANGED mainVars
    /\ UNCHANGED snp_count
    /\ UNCHANGED <<input, hashSeed, pc, lineNo, snps, fam, bed, second, prev>>

CloseBim ==
    /\ pc = "write_bim"
    /\ k = Len(snps)
    /\ pc' = NextBlock("write_bim")
    /\ UNCHANGED mainVars
    /\ UNCHANGED snp_count
    /\ UNCHANGED <<input, hashSeed, lineNo, snps, k, fam, bim, bed, second, prev>>

\* ---------------------------------------------------------------- .bed file

OpenBed ==
    /\ pc = "open_bed"
    /\ bed' = OpenTruncate(bed)
    /\ pc' = "bed_header"
    /\ UNCHANGED mainVars
    /\ UNCHANGED snp_count
    /\ UNCHANGED <<input, hashSeed, lineNo, snps, k, fam, bim, second, prev>>

WriteBedHeader ==
    /\ pc = "bed_header"
    /\ bed' = FileOf(bed.data \o MagicHeader)
    /\ k' = 0
    /\ pc' = "write_bed"
    /\ UNCHANGED mainVars
    /\ UNCHANGED snp_count
    /\ UNCHANGED <<input, hashSeed, lineNo, snps, fam, bim, second, prev>>

\* One iteration of the loop over snps that writes the genotype bytes.
WriteBedByte ==
    /\ pc = "write_bed"
    /\ k < Len(snps)
    /\ bed' = FileOf(bed.data \o BedRecord(snps[k + 1]))
    /\ k' = k + 1
    /\ UNCHANGED mainVars
    /\ UNCHANGED snp_count
    /\ UNCHANGED <<input, hashSeed, pc, lineNo, snps, fam, bim, second, prev>>

\* The end of the .bed with-block; create_binary_plink returns len(snps).
CloseBed ==
    /\ pc = "write_bed"
    /\ k = Len(snps)
    /\ pc' = NextBlock("write_bed")
    /\ snp_count' = ReturnValue(snps)
    /\ UNCHANGED mainVars
    /\ UNCHANGED <<input, hashSeed, lineNo, snps, k, fam, bim, bed, second, prev>>

\* ------------------------------------------------------------ second run

\* The conversion is run once more on the same input file and prefix, in the
\* same process or in a new one, whose hash seed is its own.
Rerun ==
    /\ pc = "done"
    /\ ~second
    /\ second' = TRUE
    /\ prev' = [fam |-> fam, bim |-> bim, bed |-> bed]
    /\ hashSeed' \in HashSeeds
    /\ pc' = NextBlock("call")
    /\ lineNo' = 0
    /\ snps' = <<>>
    /\ k' = 0
    /\ snp_count' = -1
    /\ UNCHANGED mainVars
    /\ UNCHANGED <<input, fam, bim, bed>>

Next ==
    \/ ReadLine
    \/ EndRead
    \/ OpenFam
    \/ WriteFam
    \/ OpenBim
    \/ WriteBimRow
    \/ CloseBim
    \/ OpenBed
    \/ WriteBedHeader
    \/ WriteBedByte
    \/ CloseBed
    \/ Rerun

Spec == Init /\ [][Next]_vars

\* The conversion of the end-to-end scenario's input.
InitScenario == InitOn({ScenarioFile})

SpecScenario == InitScenario /\ [][Next]_vars

\* The conversion of files of malformed and unusual lines.
InitParse == InitOn(ParseFiles)

SpecParse == InitParse /\ [][Next]_vars

\* --------------------------------------------------- locality of a drop

\* The steps of create_binary_plink.
Convert ==
    \/ ReadLine
    \/ EndRead
    \/ OpenFam
    \/ WriteFam
    \/ OpenBim
    \/ WriteBimRow
    \/ CloseBim
    \/ OpenBed
    \/ WriteBedHeader
    \/ WriteBedByte
    \/ CloseBed

\* The same process converts, to the same prefix, the input with every line
\* the reading loop skipped taken out; prev keeps the first run's fileset and
\* its input.
RerunFiltered ==
    /\ pc = "done"
    /\ ~second
    /\ second' = TRUE
    /\ prev' = [fam |-> fam, bim |-> bim, bed |-> bed, input |-> input]
    /\ input' = SelectSeq(input, LAMBDA l : ParseLine(l).keep)
    /\ pc' = NextBlock("call")
    /\ lineNo' = 0
    /\ snps' = <<>>
    /\ k' = 0
    /\ snp_count' = -1
    /\ UNCHANGED mainVars
    /\ UNCHANGED <<hashSeed, fam, bim, bed>>

NextLocal == Convert \/ RerunFiltered

SpecLocal == InitParse /\ [][NextLocal]_vars

\* ------------------------------------------------- the genotype classes

\* The conversion of files of the lines of every genotype class, once and
\* once more.
InitGenotype == InitOn(GenotypeFiles)

SpecGenotype == InitGenotype /\ [][Next]_vars

\* ------------------------------------------------- over an earlier fileset

\* The script is run once more with the same prefix on a shorter input file,
\* the first lines of the earlier one; prev keeps the earlier run's fileset
\* and its input.
RerunShorter ==
    /\ pc = "done"
    /\ ~second
    /\ second' = TRUE
    /\ prev' = [fam |-> fam, bim |-> bim, bed |-> bed, input |-> input]
    /\ \E n \in 0..(Len(input) - 1) : input' = SubSeq(input, 1, n)
    /\ hashSeed' \in HashSeeds
    /\ pc' = NextBlock("call")
    /\ lineNo' = 0
    /\ snps' = <<>>
    /\ k' = 0
    /\ snp_count' = -1
    /\ UNCHANGED mainVars
    /\ UNCHANGED <<fam, bim, bed>>

NextOverwrite == Convert \/ RerunShorter

SpecOverwrite == InitGenotype /\ [][NextOverwrite]_vars

\* -------------------------------------------------------------------- main

\* A mutant of WrongArgCount: only too few arguments are refused.
WrongArgCountBelow(n) == n < 2

\* len(sys.argv) != 3
WrongArgCount(n) == n /= 2

\* The positions of create_binary_plink at which an open, a read or a write
\* can raise.
IOPoints ==
    {"read", "open_fam", "write_fam", "open_bim", "write_bim", "open_bed",
     "bed_header", "write_bed"}

\* A mutant of CatchOutcome: the handler removes the output files.
CatchOutcomeCleanup(fs) ==
    [status |-> 1, files |-> [fam |-> Absent, bim |-> Absent, bed |-> Absent]]

\* What the except block of main leaves: the exit status, and the fileset fs
\* found when the exception arrived.
CatchOutcome(fs) == [status |-> 1, files |-> fs]

InitMain ==
    /\ inputExists \in BOOLEAN
    /\ input \in (IF inputExists THEN MainFiles ELSE {<<>>})
    /\ argc \in 0..MaxArgs
    /\ hashSeed \in HashSeeds
    /\ pc = "main"
    /\ lineNo = 0
    /\ snps = <<>>
    /\ k = 0
    /\ \E old \in {NoFileset, OldFileset} :
          fam = old.fam /\ bim = old.bim /\ bed = old.bed
    /\ second = FALSE
    /\ prev = NoFileset
    /\ called = FALSE
    /\ status = 0
    /\ snp_count = -1

\* The usage message and sys.exit(1).
MainUsage ==
    /\ pc = "main"
    /\ WrongArgCount(argc)
    /\ status' = 1
    /\ pc' = "exited"
    /\ UNCHANGED <<input, hashSeed, lineNo, snps, k, fam, bim, bed, second, prev,
                   argc, inputExists, called>>
    /\ UNCHANGED snp_count

\* The input file is not found: the error message and sys.exit(1).
MainNotFound ==
    /\ pc = "main"
    /\ ~WrongArgCount(argc)
    /\ ~inputExists
    /\ status' = 1
    /\ pc' = "exited"
    /\ UNCHANGED <<input, hashSeed, lineNo, snps, k, fam, bim, bed, second, prev,
                   argc, inputExists, called>>
    /\ UNCHANGED snp_count

\* main enters the try block and calls create_binary_plink.
MainCall ==
    /\ pc = "main"
    /\ ~WrongArgCount(argc)
    /\ inputExists
    /\ called' = TRUE
    /\ pc' = NextBlock("call")
    /\ UNCHANGED <<input, hashSeed, lineNo, snps, k, fam, bim, bed, second, prev,
                   argc, inputExists, status>>
    /\ UNCHANGED snp_count

\* An open, a read or a write raises: the with-block in progress closes its
\* file and the exception leaves create_binary_plink.
Raise ==
    /\ pc \in IOPoints
    /\ pc' = "raised"
    /\ UNCHANGED <<input, hashSeed, lineNo, snps, k, fam, bim, bed, second, prev>>
    /\ UNCHANGED mainVars
    /\ UNCHANGED snp_count

\* except Exception: the error message and sys.exit(1).
MainCatch ==
    /\ pc = "raised"
    /\ LET out == CatchOutcome([fam |-> fam, bim |-> bim, bed |-> bed])
       IN  /\ status' = out.status
           /\ fam' = out.files.fam
           /\ bim' = out.files.bim
           /\ bed' = out.files.bed
    /\ pc' = "exited"
    /\ UNCHANGED <<input, hashSeed, lineNo, snps, k, second, prev,
                   argc, inputExists, called>>
    /\ UNCHANGED snp_count

\* create_binary_plink returned: the success messages, and main ends.
MainSuccess ==
    /\ pc = "done"
    /\ status' = 0
    /\ pc' = "exited"
    /\ UNCHANGED <<input, hashSeed, lineNo, snps, k, fam, bim, bed, second, prev,
                   argc, inputExists, called>>
    /\ UNCHANGED snp_count

NextMain ==
    \/ MainUsage
    \/ MainNotFound
    \/ MainCall
    \/ Convert
    \/ Raise
    \/ MainCatch
    \/ MainSuccess

\* One run of the script from the command line.
SpecMain == InitMain /\ [][NextMain]_vars

\* ------------------------------------------------- reading the files back

\* The whitespace-separated fields of a line, as a reader of the fileset
\* takes them: runs of whitespace separate, no field is empty.
RECURSIVE WsFrom(_, _, _)
WsFrom(s, cur, acc) ==
    IF s = <<>> THEN (IF cur = <<>> THEN acc ELSE Append(acc, cur))
    ELSE IF IsSpace(Head(s))
         THEN WsFrom(Tail(s), <<>>, IF cur = <<>> THEN acc ELSE Append(acc, cur))
         ELSE WsFrom(Tail(s), Append(cur, Head(s)), acc)

WsFields(s) == WsFrom(s, <<>>, <<>>)

Done == pc = "done"

\* The four fields the reading loop takes from a line.
RawFields(line) == Split(Strip(line), TAB)

Retained(line) == ParseLine(line).keep

\* The retained lines of the input, in file order.
Kept == SelectSeq(input, Retained)

RsidField(line) == RawFields(line)[1]
ChromField(line) == RawFields(line)[2]
GenotypeField(line) == RawFields(line)[4]

\* Row i of the .bim file and the sample's 2-bit code in data byte i of the
\* .bed file.
BimMajor(i) == WsFields(bim.data[i])[5]
BimMinor(i) == WsFields(bim.data[i])[6]
BimRsid(i) == WsFields(bim.data[i])[2]
BedData == SubSeq(bed.data, 4, Len(bed.data))
BedCode(i) == bed.data[3 + i] % 4

\* A character that is neither the input's missing marker nor the record's
\* missing sentinel.
Called(c) == c \notin {"-", "0"}

\* ------------------------------------------------------------------ claims

\* C1: once create_binary_plink has completed, the .bim file has as many
\* lines as the .bed file has bytes after its 3-byte header, and both
\* numbers are the number of retained SNP records.
C1_RowCountParity ==
    Done =>
        /\ Len(bim.data) = Len(bed.data) - 3
        /\ Len(bim.data) = Len(Kept)
        /\ Len(bim.data) = Len(snps)

\* C1 witness: a completed conversion of a three-line file that retained two
\* records and dropped one line.
C1_Witness ==
    Done /\ Len(input) = 3 /\ Len(Kept) = 2 /\ Len(bim.data) = 2 /\ Len(bed.data) = 5

\* C2 as claimed: a heterozygous input genotype c1 c2 gives the .bim row
\* major allele c1 and minor allele c2, in the observed order, and the 2-bit
\* code 10. The code takes the order from a set, so it fails.
C2_HetObservedOrder ==
    Done =>
        LET kept == Kept
        IN  \A i \in 1..Len(kept) :
                LET g == GenotypeField(kept[i])
                IN  (Len(g) = 2 /\ g[1] /= g[2] /\ Called(g[1]) /\ Called(g[2])) =>
                        /\ BimMajor(i) = <<g[1]>>
                        /\ BimMinor(i) = <<g[2]>>
                        /\ BedCode(i) = 2

\* C3 as claimed: the second conversion of the same input with the same
\* prefix leaves the three files byte-identical to what the first left, also
\* when it runs in another process.
C3_Idempotent ==
    (Done /\ second) => (fam = prev.fam /\ bim = prev.bim /\ bed = prev.bed)

\* C4: the first three bytes of the generated .bed file are 0x6c 0x1b 0x01
\* from the moment the header is written, whatever the input; with no
\* retained variant the finished file is exactly those three bytes.
C4_MagicHeader ==
    (pc \in {"write_bed", "done"}) =>
        /\ bed.exists
        /\ Len(bed.data) >= 3
        /\ SubSeq(bed.data, 1, 3) = <<108, 27, 1>>
        /\ (Done /\ Len(Kept) = 0) => bed.data = <<108, 27, 1>>

\* C4 witness: a completed conversion of a non-empty input with no retained
\* variant, over an older and longer .bed file.
C4_Witness ==
    /\ Done /\ ~second
    /\ Len(input) = 2 /\ Len(Kept) = 0
    /\ bed.data = <<108, 27, 1>>

\* C5: a line whose chromosome field is MT, Y or 0 gives no .bim row and no
\* .bed byte: no row carries its rsid, and the files hold no more rows and
\* data bytes than the input has other lines.
C5_ExcludedChromosomes ==
    Done =>
        LET fielded == {j \in 1..Len(input) :
                            /\ ~StartsWithHash(Strip(input[j]))
                            /\ Len(RawFields(input[j])) >= 4}
            excluded == {j \in fielded :
                            ChromField(input[j]) \in {<<"M", "T">>, <<"Y">>, <<"0">>}}
        IN  /\ \A j \in excluded : \A i \in 1..Len(bim.data) :
                    BimRsid(i) /= RsidField(input[j])
            /\ Len(bim.data) <= Len(input) - Cardinality(excluded)
            /\ Len(bed.data) - 3 <= Len(input) - Cardinality(excluded)

\* C5 witness: a completed conversion whose input holds an MT line, a line of
\* chromosome 0 and a retained line.
C5_Witness ==
    /\ Done
    /\ \E a, b \in 1..Len(input) :
          /\ Len(RawFields(input[a])) >= 4 /\ ChromField(input[a]) = <<"M", "T">>
          /\ Len(RawFields(input[b])) >= 4 /\ ChromField(input[b]) = <<"0">>
    /\ Len(bim.data) = 1

\* C6: every retained record with a missing-sentinel allele, and so every
\* input genotype --, has the .bim alleles (A, T) and the 2-bit code 01.
C6_MissingPlaceholder ==
    Done =>
        LET kept == Kept
        IN  /\ Len(snps) = Len(kept)
            /\ \A i \in 1..Len(snps) :
                  (\/ snps[i].allele1 = "0"
                   \/ snps[i].allele2 = "0"
                   \/ GenotypeField(kept[i]) = <<"-", "-">>) =>
                        /\ BimMajor(i) = <<"A">>
                        /\ BimMinor(i) = <<"T">>
                        /\ BedCode(i) = 1

\* C6 witness: a completed conversion that retained a -- genotype and a
\* record with one sentinel allele only.
C6_Witness ==
    /\ Done
    /\ \E i, j \in 1..Len(snps) :
          /\ GenotypeField(Kept[i]) = <<"-", "-">>
          /\ snps[j].allele1 /= "0" /\ snps[j].allele2 = "0"

\* C7: a homozygous input genotype cc of a called character c has the .bim
\* major allele c, the minor allele A when c is not A and T when c is A, and
\* the 2-bit code 00.
C7_Homozygous ==
    Done =>
        LET kept == Kept
        IN  \A i \in 1..Len(kept) :
                LET g == GenotypeField(kept[i])
                IN  (Len(g) = 2 /\ g[1] = g[2] /\ Called(g[1])) =>
                        /\ BimMajor(i) = <<g[1]>>
                        /\ BimMinor(i) = (IF g[1] = "A" THEN <<"T">> ELSE <<"A">>)
                        /\ BedCode(i) = 0

\* C7 witness: a completed conversion that retained an AA and a CC genotype.
C7_Witness ==
    /\ Done
    /\ \E i, j \in 1..Len(Kept) :
          /\ GenotypeField(Kept[i]) = <<"A", "A">> /\ BimMinor(i) = <<"T">>
          /\ GenotypeField(Kept[j]) = <<"C", "C">> /\ BimMinor(j) = <<"A">>

\* C8: the rsids of the .bim rows, and the variants the .bed data bytes
\* encode, are the retained input lines in file order, each once.
C8_InputOrder ==
    Done =>
        LET kept == Kept
        IN  /\ Len(bim.data) = Len(kept)
            /\ \A i \in 1..Len(kept) : BimRsid(i) = RsidField(kept[i])
            /\ BedData = [i \in 1..Len(kept) |-> BedRecord(ParseLine(kept[i]).snp)[1]]

\* C8 witness: a completed conversion that retained three lines of different
\* genotype classes around no dropped line, the last a missing genotype.
C8_Witness ==
    /\ Done
    /\ Len(Kept) = 3
    /\ BedCode(1) = 0 /\ BedCode(2) = 2 /\ BedCode(3) = 1
    /\ BimRsid(1) /= BimRsid(2) /\ BimRsid(2) /= BimRsid(3)

\* C9: the end-to-end scenario gives a one-line .fam, a .bim of the three rows
\* rs1, rs2, rs4 with rs4 on chromosome 23, and a six-byte .bed whose data
\* bytes carry the codes 00, 10, 01 over the padding 01 01 01.
C9_Scenario ==
    Done =>
        /\ Len(fam.data) = 1
        /\ Len(bim.data) = 3
        /\ BimRsid(1) = <<"r", "s", "1">>
        /\ BimRsid(2) = <<"r", "s", "2">>
        /\ BimRsid(3) = <<"r", "s", "4">>
        /\ WsFields(bim.data[3])[1] = <<"2", "3">>
        /\ bed.data = <<108, 27, 1, 84, 86, 85>>

\* C9 witness: the scenario's conversion has completed, over an older fileset.
C9_Witness ==
    Done /\ input = ScenarioFile /\ Len(bed.data) = 6 /\ Len(bim.data) = 3

\* C10: once written, the .fam file holds exactly one line; read back when
\* its with-block ends and when the conversion completes, that line is the
\* six whitespace-separated fields family ID, individual ID, paternal ID 0,
\* maternal ID 0, sex code, phenotype code, the same for every input.
C10_FamOneLine ==
    /\ (pc \in {"open_bim", "write_bim", "open_bed", "bed_header", "write_bed", "done"}) =>
          fam.exists /\ Len(fam.data) = 1
    /\ (pc \in {"open_bim", "done"}) =>
          WsFields(fam.data[1]) =
              << <<"Z", "e", "h", "r", "a", "_", "R", "a", "z", "a">>,
                 <<"Z", "e", "h", "r", "a", "_", "R", "a", "z", "a">>,
                 <<"0">>, <<"0">>, <<"2">>, <<"-", "9">> >>

\* C10 witness: a conversion that retained three records has completed and
\* its .fam file holds one line.
C10_Witness ==
    Done /\ Len(fam.data) = 1 /\ Len(snps) = 3

\* The fields of a line as it stands in the file, split at the tabs with
\* nothing stripped.
FileFields(line) == Split(line, TAB)

\* The lines of the input from which the reading loop takes four fields.
Fielded ==
    {j \in 1..Len(input) :
        ~StartsWithHash(Strip(input[j])) /\ Len(RawFields(input[j])) >= 4}

Nucleotides == {"A", "C", "G", "T"}

\* C11 as claimed: every .bim line is six whitespace-separated fields, the
\* second the rsid verbatim and the third the literal 0, also for an rsid that
\* contains spaces. The rsid is written unquoted, so such a row has more.
C11_BimSixFields ==
    Done =>
        LET kept == Kept
        IN  \A i \in 1..Len(bim.data) :
                LET f == WsFields(bim.data[i])
                IN  /\ Len(f) = 6
                    /\ f[1] = IntToStr(snps[i].chrom)
                    /\ f[2] = RsidField(kept[i])
                    /\ f[3] = <<"0">>
                    /\ f[4] = IntToStr(snps[i].pos)

\* C12: with an argument count other than two, or an input path that does
\* not exist, main never calls the converter, leaves <prefix>.fam, .bim and
\* .bed as they are in every step, and exits with status 1.
C12_UsageExit ==
    /\ []((argc /= 2 \/ ~inputExists) =>
            /\ ~called
            /\ pc \in {"main", "exited"}
            /\ (pc = "exited" => status /= 0))
    /\ [][(argc /= 2 \/ ~inputExists) =>
            /\ fam' = fam /\ bim' = bim /\ bed' = bed
            /\ (pc = "main" => pc' = "exited")]_vars

\* C12 witness: main has exited with status 1 on a missing input path, given
\* two arguments, over an older fileset left untouched.
C12_Witness ==
    /\ pc = "exited" /\ status = 1 /\ ~called
    /\ argc = 2 /\ ~inputExists
    /\ bim = OldFileset.bim

\* C13: an exception that leaves create_binary_plink is followed by main's
\* exit with a non-zero status, and the three files stay as the exception
\* found them.
C13_ErrorsCaught ==
    [][(pc = "raised") =>
            /\ pc' = "exited"
            /\ status' /= 0
            /\ fam' = fam /\ bim' = bim /\ bed' = bed]_vars

\* C13 witness: main has exited with status 1 after a write to the .bim file
\* raised: the .fam file and the first .bim row are there, no .bed file is.
C13_Witness ==
    /\ pc = "exited" /\ status = 1 /\ called
    /\ input = ScenarioFile
    /\ fam = FileOf(<<FamLine>>)
    /\ bim.exists /\ Len(bim.data) = 1
    /\ ~bed.exists

\* C14 as claimed: every retained record has a chromosome code in 1..23, and
\* so has every .bim row. The code keeps whatever int() accepts.
C14_ChromInRange ==
    Done =>
        \A i \in 1..Len(snps) :
            /\ snps[i].chrom \in 1..23
            /\ ParseInt(WsFields(bim.data[i])[1]).val \in 1..23

\* C15 as claimed: every retained record has a non-negative position. The
\* code keeps a negative numeral.
C15_PositionNonNegative ==
    Done =>
        \A i \in 1..Len(snps) :
            LET f == WsFields(bim.data[i])
            IN  /\ snps[i].pos >= 0
                /\ ParseInt(f[Len(f) - 2]).val >= 0

\* C16 as claimed: each allele of a retained record is A, C, G, T or the
\* missing sentinel, the .bim allele columns hold nucleotides only and only
\* nucleotide pairs are encoded as called genotypes.
C16_AllelesAreNucleotides ==
    Done =>
        \A i \in 1..Len(snps) :
            LET f == WsFields(bim.data[i])
            IN  /\ snps[i].allele1 \in Nucleotides \cup {"0"}
                /\ snps[i].allele2 \in Nucleotides \cup {"0"}
                /\ \E c \in Nucleotides : f[Len(f) - 1] = <<c>>
                /\ \E c \in Nucleotides : f[Len(f)] = <<c>>
                /\ BedCode(i) /= 1 =>
                      {snps[i].allele1, snps[i].allele2} \subseteq Nucleotides

\* C17: a line whose genotype field is not -- and not two characters long
\* leaves no record, no .bim row and no .bed byte; a two-character genotype
\* is split into allele1 = its first and allele2 = its second character.
C17_GenotypeLength ==
    Done =>
        LET kept == Kept
            wrong == {j \in Fielded :
                        /\ GenotypeField(input[j]) /= <<"-", "-">>
                        /\ Len(GenotypeField(input[j])) /= 2}
        IN  /\ \A j \in wrong : \A i \in 1..Len(snps) :
                    snps[i].rsid /= RsidField(input[j])
            /\ Len(bim.data) <= Len(input) - Cardinality(wrong)
            /\ Len(bed.data) - 3 <= Len(input) - Cardinality(wrong)
            /\ \A i \in 1..Len(kept) :
                    LET g == GenotypeField(kept[i])
                    IN  g /= <<"-", "-">> =>
                            /\ Len(g) = 2
                            /\ snps[i].allele1 = g[1]
                            /\ snps[i].allele2 = g[2]

\* C17 witness: a completed conversion of a three-character genotype line,
\* dropped, and the genotype DI, kept as allele1 = D and allele2 = I.
C17_Witness ==
    /\ Done
    /\ \E j \in 1..Len(input) : input[j] = LineThreeChar
    /\ Len(snps) = 1 /\ snps[1].allele1 = "D" /\ snps[1].allele2 = "I"
    /\ Len(bim.data) = 1 /\ Len(bed.data) = 4

\* C18 as claimed: the rsid, chromosome, position and genotype of a retained
\* record are the first four tab-separated fields of its line as it stands
\* in the file, and a line of fewer than four such fields is not retained.
\* The line is stripped before it is split, so a leading tab shifts them.
C18_FirstFourFileFields ==
    Done =>
        LET kept == Kept
        IN  \A i \in 1..Len(kept) :
                LET f == FileFields(kept[i])
                IN  /\ Len(f) >= 4
                    /\ snps[i].rsid = f[1]
                    /\ ChromNum(f[2]).ok /\ snps[i].chrom = ChromNum(f[2]).val
                    /\ ParseInt(f[3]).ok /\ snps[i].pos = ParseInt(f[3]).val
                    /\ Alleles(f[4]).ok
                    /\ snps[i].allele1 = Alleles(f[4]).a1
                    /\ snps[i].allele2 = Alleles(f[4]).a2

\* C19: a line that begins with # and a blank line leave no record, no .bim
\* row and no .bed byte, whatever follows the #.
C19_CommentsAndBlanks ==
    Done =>
        LET skipped == {j \in 1..Len(input) :
                            input[j] = <<>> \/ Head(input[j]) = "#"}
        IN  /\ \A j \in skipped : \A i \in 1..Len(snps) :
                    snps[i].rsid /= FileFields(input[j])[1]
            /\ Len(snps) <= Len(input) - Cardinality(skipped)
            /\ Len(bim.data) <= Len(input) - Cardinality(skipped)
            /\ Len(bed.data) - 3 <= Len(input) - Cardinality(skipped)

\* C19 witness: a completed conversion of a comment line that holds four
\* well-formed fields and a blank line: no row, and the header alone.
C19_Witness ==
    /\ Done
    /\ input = <<LineHashData, LineBlank>>
    /\ bim.data = <<>>
    /\ bed.data = <<108, 27, 1>>

\* C20: the fileset a conversion leaves is the one the same process leaves
\* when it converts the input without its dropped lines: a dropped line
\* changes nothing for the other lines, and the conversion completes.
C20_DropIsLocal ==
    (Done /\ second) =>
        /\ Len(snps) = Len(input)
        /\ [fam |-> fam, bim |-> bim, bed |-> bed] =
              [fam |-> prev.fam, bim |-> prev.bim, bed |-> prev.bed]

\* C20 witness: both conversions have completed, the first on two lines of
\* which one was dropped.
C20_Witness ==
    /\ Done /\ second
    /\ Len(prev.input) = 2 /\ Len(input) = 1
    /\ Len(bim.data) = 1 /\ Len(prev.bim.data) = 1

\* C21: in every data byte of the generated .bed file the slots of bits 2-3,
\* 4-5 and 6-7 hold the missing code 01 and only the low two bits vary: the
\* byte is 0x54, 0x55 or 0x56.
C21_PaddingSlots ==
    (pc \in {"write_bed", "done"}) =>
        \A i \in 4..Len(bed.data) :
            LET b == bed.data[i]
            IN  /\ (b \div 4) % 4 = 1
                /\ (b \div 16) % 4 = 1
                /\ (b \div 64) % 4 = 1
                /\ b \in {84, 85, 86}

\* C21 witness: a completed conversion whose three data bytes are 0x54, 0x55
\* and 0x56, one each.
C21_Witness ==
    /\ Done
    /\ Len(bed.data) = 6
    /\ {bed.data[i] : i \in 4..6} = {84, 85, 86}

\* C22: the 2-bit sample code of every data byte is 00, 10 or 01; the
\* homozygous-minor code 11 is written for no input, a homozygous call of an
\* allele other than A included.
C22_NoHomMinor ==
    (pc \in {"write_bed", "done"}) =>
        \A i \in 1..(Len(bed.data) - 3) :
            /\ BedCode(i) \in {0, 1, 2}
            /\ BedCode(i) /= 3

\* C22 witness: a completed conversion that wrote the three codes, the code
\* 00 for the homozygous genotype CC.
C22_Witness ==
    /\ Done
    /\ Len(snps) = 3
    /\ {BedCode(i) : i \in 1..3} = {0, 1, 2}
    /\ \E i \in 1..3 :
          snps[i].allele1 = "C" /\ snps[i].allele2 = "C" /\ BedCode(i) = 0

\* The two allele characters that end a .bim row, as the f-string writes
\* them: the major allele, one space, the minor allele.
RowPair(row) == <<row[Len(row) - 2], row[Len(row)]>>

\* C23 as claimed: the (major, minor) pair of a .bim row is a function of the
\* record's (allele1, allele2) alone: two records of one run with the same
\* allele pair have the same row pair, and a record has the same row pair in
\* the run that follows in another process. The pair of a heterozygous
\* record comes from a set, so the second part fails.
C23_PairIsFunction ==
    Done =>
        /\ \A i, j \in 1..Len(snps) :
              (snps[i].allele1 = snps[j].allele1 /\ snps[i].allele2 = snps[j].allele2)
                  => RowPair(bim.data[i]) = RowPair(bim.data[j])
        /\ second =>
              \A i \in 1..Len(snps) :
                  RowPair(bim.data[i]) = RowPair(prev.bim.data[i])

\* C24: the files are written in the order .fam, .bim, .bed, each complete
\* and closed before the next is opened. At every position after the .bim
\* file is opened the .fam file holds its one line, and at every position
\* after the .bed file is opened the .bim file holds all its rows; a step
\* changes one file only, the .bim file only under a complete .fam file and
\* the .bed file only under complete .fam and .bim files; and an
\* interruption changes no file.
C24_WriteOrder ==
    /\ [](LET famDone == fam = FileOf(<<FamLine>>)
              bimDone == bim = FileOf([i \in 1..Len(snps) |->
                                          BimRow(snps[i], hashSeed)])
          IN  /\ (pc \in {"write_bim", "open_bed", "bed_header", "write_bed", "done"})
                    => famDone
              /\ (pc \in {"bed_header", "write_bed", "done"})
                    => (famDone /\ bimDone))
    /\ [][/\ (bed' /= bed) =>
                /\ fam = FileOf(<<FamLine>>) /\ fam' = fam
                /\ bim.exists /\ Len(bim.data) = Len(snps) /\ bim' = bim
          /\ (bim' /= bim) =>
                /\ fam = FileOf(<<FamLine>>) /\ fam' = fam
                /\ bed' = bed
          /\ (fam' /= fam) => (bim' = bim /\ bed' = bed)
          /\ (pc' = "raised") => (fam' = fam /\ bim' = bim /\ bed' = bed)]_vars

\* C24 witness: a write to the .bed file raised after the first of three
\* data bytes: main has exited, the .fam file holds its line, the .bim file
\* its three rows.
C24_Witness ==
    /\ pc = "exited" /\ status = 1 /\ called
    /\ input = ScenarioFile
    /\ Len(bed.data) = 4
    /\ Len(bim.data) = 3 /\ Len(snps) = 3
    /\ fam = FileOf(<<FamLine>>)

\* C25: the input is read to its end before an output file is opened. While
\* the reading loop runs no step changes <prefix>.fam, .bim or .bed, and
\* control leaves the loop for the first open only at the end of the input;
\* when opening or reading the input has failed, the three files are what
\* they were before the run, absent or the older fileset.
C25_ReadBeforeWrite ==
    /\ []((\/ pc = "read"
           \/ (pc \in {"raised", "exited"} /\ called /\ lineNo < Len(input)))
            => [fam |-> fam, bim |-> bim, bed |-> bed] \in {NoFileset, OldFileset})
    /\ [][(pc = "read") =>
            /\ fam' = fam /\ bim' = bim /\ bed' = bed
            /\ pc' \in {"read", "raised", "open_fam"}
            /\ (pc' = "open_fam") => (lineNo = Len(input))]_vars

\* C25 witness: reading raised after two of the scenario's five lines: main
\* has exited with status 1 and the older fileset is as it was.
C25_Witness ==
    /\ pc = "exited" /\ status = 1 /\ called
    /\ input = ScenarioFile /\ lineNo = 2 /\ Len(snps) = 1
    /\ fam = OldFileset.fam /\ bim = OldFileset.bim /\ bed = OldFileset.bed

\* C26: row i of the .bim file and data byte i of the .bed file agree for
\* every variant: under the code 00 the major allele is both observed
\* alleles, under the code 10 the major and minor alleles are, as a set, the
\* two observed alleles, and under the code 01 the row pair is the
\* placeholder (A, T).
C26_BedBimConsistent ==
    Done =>
        /\ Len(bim.data) = Len(snps)
        /\ Len(bed.data) = Len(snps) + 3
        /\ \A i \in 1..Len(snps) :
              LET pair == RowPair(bim.data[i])
                  a1 == snps[i].allele1
                  a2 == snps[i].allele2
              IN  /\ BedCode(i) = 0 => (pair[1] = a1 /\ pair[1] = a2)
                  /\ BedCode(i) = 2 => ({pair[1], pair[2]} = {a1, a2} /\ a1 /= a2)
                  /\ BedCode(i) = 1 => pair = <<"A", "T">>

\* C26 witness: a completed conversion with one variant of each code: a
\* homozygous one, a heterozygous one whose row has the observed alleles in
\* the reverse order, and the genotype A0 under the code 01.
C26_Witness ==
    /\ Done
    /\ \E h, t, m \in 1..Len(snps) :
          /\ BedCode(h) = 0 /\ RowPair(bim.data[h])[1] = snps[h].allele1
          /\ BedCode(t) = 2
          /\ RowPair(bim.data[t]) = <<snps[t].allele2, snps[t].allele1>>
          /\ BedCode(m) = 1 /\ snps[m].allele1 = "A" /\ snps[m].allele2 = "0"
          /\ RowPair(bim.data[m]) = <<"A", "T">>

\* C27 as claimed: a variant has the sample code 01, and with it the
\* placeholder alleles (A, T), only if the genotype field of its line is the
\* missing marker --; no other two-character genotype is taken for missing.
\* The sentinel of a missing allele is the character 0, so a genotype that
\* holds a 0 is.
C27_MissingOnlyFromMarker ==
    Done =>
        LET kept == Kept
        IN  \A i \in 1..Len(kept) :
                (BedCode(i) = 1 \/ "0" \in {snps[i].allele1, snps[i].allele2})
                    => GenotypeField(kept[i]) = <<"-", "-">>

\* C28: every row of the generated .bim file ends with two distinct allele
\* symbols, whether its record is missing, homozygous or heterozygous.
C28_DistinctAlleles ==
    (pc \in {"write_bim", "open_bed", "bed_header", "write_bed", "done"}) =>
        \A i \in 1..Len(bim.data) :
            RowPair(bim.data[i])[1] /= RowPair(bim.data[i])[2]

\* C28 witness: a completed conversion with a missing, a homozygous and a
\* heterozygous record, the homozygous one of the allele A itself.
C28_Witness ==
    /\ Done
    /\ Len(bim.data) = 3
    /\ \E h, t, m \in 1..3 :
          /\ snps[h].allele1 = "A" /\ snps[h].allele2 = "A"
          /\ RowPair(bim.data[h]) = <<"A", "T">>
          /\ snps[t].allele1 = "G" /\ snps[t].allele2 = "A"
          /\ snps[m].allele1 = "0" /\ snps[m].allele2 = "0"

\* C29: every output file is cut to nothing when it is opened and written
\* anew: after a completed conversion the three files are what the input's
\* retained lines give in this process, whatever the files held before, the
\* output of an earlier run on a longer input included.
C29_Overwritten ==
    Done =>
        LET kept == Kept
            recs == [i \in 1..Len(kept) |-> ParseLine(kept[i]).snp]
        IN  /\ fam = FileOf(<<FamLine>>)
            /\ bim = FileOf([i \in 1..Len(recs) |-> BimRow(recs[i], hashSeed)])
            /\ bed = FileOf(MagicHeader \o
                            [i \in 1..Len(recs) |-> PackByte(GenotypeBits(recs[i]))])

\* C29 witness: a second conversion, of the first line alone, has completed
\* over the fileset that the conversion of two retained lines left.
C29_Witness ==
    /\ Done /\ second
    /\ Len(prev.input) = 2 /\ Len(prev.bim.data) = 2 /\ Len(prev.bed.data) = 5
    /\ Len(input) = 1
    /\ Len(fam.data) = 1 /\ Len(bim.data) = 1 /\ Len(bed.data) = 4

\* C30: the integer create_binary_plink returns, the SNP count main reports,
\* is the number of rows of the .bim file and the number of bytes the .bed
\* file holds after its header.
C30_ReturnedCount ==
    (pc = "done" \/ (pc = "exited" /\ status = 0)) =>
        /\ snp_count = Len(bim.data)
        /\ snp_count = Len(bed.data) - 3

\* C30 witness: main has ended with status 0 on the scenario's input and
\* reported three SNPs.
C30_Witness ==
    /\ pc = "exited" /\ status = 0 /\ called
    /\ input = ScenarioFile
    /\ snp_count = 3 /\ Len(bim.data) = 3 /\ Len(bed.data) = 6

====
